---- MODULE Spec2Model ----
(***************************************************************************)
(* Model of src/AI-Interview.py: a Streamlit script that sequences an      *)
(* interview between three agents (Interviewer, Coach, Scorer) and a       *)
(* human candidate.  One action of the model is one user interaction: the  *)
(* script run that handles it, together with the re-run that st.rerun()    *)
(* triggers.  st.session_state is the persistent state; the widget values, *)
(* the messages shown and the completion report are what a run reads and   *)
(* produces.                                                               *)
(*                                                                         *)
(* Texts are sequences of one-character strings, so that split, strip,     *)
(* upper and float can be computed as Python computes them.  Scores are    *)
(* integers: the model's score literals are [sign]digits, for which        *)
(* float() yields the integer value.  The timestamp of a turn is not       *)
(* modelled (no handler reads it).                                         *)
(***************************************************************************)
EXTENDS Integers, Sequences, FiniteSets, TLC

VARIABLES
    conversation_history,  \* st.session_state.conversation_history
    interview_active,      \* st.session_state.interview_active
    question_count,        \* st.session_state.question_count
    total_score,           \* st.session_state.total_score
    scores_list,           \* st.session_state.scores_list
    agents_ready,          \* st.session_state.agents_ready
    current_question,      \* st.session_state.current_question
    waiting_for_answer,    \* st.session_state.waiting_for_answer
    num_questions,         \* the "Number of Questions" widget value
    submit_button,         \* the form was submitted in the last run
    user_answer,           \* the text submitted in the last run
    notice,                \* the st.error / st.warning shown by the last run
    calls,                 \* the agent calls made while handling the last interaction
    report                 \* the completion block's output in the last run

session == <<conversation_history, interview_active, question_count, total_score,
             scores_list, agents_ready, current_question, waiting_for_answer>>

vars == <<conversation_history, interview_active, question_count, total_score,
          scores_list, agents_ready, current_question, waiting_for_answer,
          num_questions, submit_button, user_answer, notice, calls, report>>

----------------------------------------------------------------------------
(* Bounds and program constants *)

\* the longest history from which a further answer is submitted
MaxHistory == 5

\* the largest "Number of Questions" the user changes the widget to
MaxPick == 3

\* st.number_input("Number of Questions", min_value=1, max_value=15, value=5)
MinQuestions == 1

MaxQuestions == 15

DefaultQuestions == 5

\* the fallback score of the bare except
DefaultScore == 7

----------------------------------------------------------------------------
(* Text: Python's str operations on sequences of characters *)

Whitespace == {" ", "\n", "\t"}

Digits == {"0", "1", "2", "3", "4", "5", "6", "7", "8", "9"}

DigitVal(c) ==
    CASE c = "0" -> 0 [] c = "1" -> 1 [] c = "2" -> 2 [] c = "3" -> 3
      [] c = "4" -> 4 [] c = "5" -> 5 [] c = "6" -> 6 [] c = "7" -> 7
      [] c = "8" -> 8 [] c = "9" -> 9

\* str.upper(), on the letters the model's texts use
UpperChar(c) ==
    CASE c = "s" -> "S" [] c = "c" -> "C" [] c = "o" -> "O" [] c = "r" -> "R"
      [] c = "e" -> "E" [] c = "a" -> "A" [] c = "b" -> "B" [] c = "x" -> "X"
      [] OTHER -> c

Upper(s) == [i \in 1..Len(s) |-> UpperChar(s[i])]

\* pat in s
Contains(s, pat) ==
    \E i \in 1..(Len(s) - Len(pat) + 1) : SubSeq(s, i, i + Len(pat) - 1) = pat

\* s.split(sep): always at least one piece
RECURSIVE Split(_, _)
Split(s, sep) ==
    IF \E i \in 1..Len(s) : s[i] = sep
    THEN LET i == CHOOSE k \in 1..Len(s) :
                      s[k] = sep /\ \A j \in 1..(k - 1) : s[j] # sep
         IN <<SubSeq(s, 1, i - 1)>> \o Split(SubSeq(s, i + 1, Len(s)), sep)
    ELSE <<s>>

\* s.strip()
RECURSIVE Strip(_)
Strip(s) ==
    IF s = <<>> THEN s
    ELSE IF s[1] \in Whitespace THEN Strip(Tail(s))
    ELSE IF s[Len(s)] \in Whitespace THEN Strip(SubSeq(s, 1, Len(s) - 1))
    ELSE s

RECURSIVE DecimalValue(_)
DecimalValue(s) ==
    IF s = <<>> THEN 0
    ELSE 10 * DecimalValue(SubSeq(s, 1, Len(s) - 1)) + DigitVal(s[Len(s)])

\* float(s) raises ValueError unless, after stripping, s is [sign]digits
FloatOk(s) ==
    LET t == Strip(s)
        d == IF t # <<>> /\ t[1] \in {"-", "+"} THEN Tail(t) ELSE t
    IN d # <<>> /\ \A i \in 1..Len(d) : d[i] \in Digits

Float(s) ==
    LET t == Strip(s)
    IN IF t[1] = "-" THEN 0 - DecimalValue(Tail(t))
       ELSE IF t[1] = "+" THEN DecimalValue(Tail(t))
       ELSE DecimalValue(t)

ScoreMarker == <<"S", "C", "O", "R", "E", ":">>

\* [line for line in score_feedback.split('\n') if 'SCORE:' in line.upper()]
ScoreLines(score_feedback) ==
    SelectSeq(Split(score_feedback, "\n"), LAMBDA line : Contains(Upper(line), ScoreMarker))

\* score_line.split('/')[0].split(':')[-1]
ScoreField(score_line) ==
    LET parts == Split(Split(score_line, "/")[1], ":")
    IN parts[Len(parts)]

\* the score the try/except appends: the parsed one, or the default when
\* no line has the marker (IndexError) or float() fails (ValueError)
ExtractScore(score_feedback) ==
    LET lines == ScoreLines(score_feedback)
    IN IF lines = <<>> THEN DefaultScore
       ELSE LET field == Strip(ScoreField(lines[1]))
            IN IF FloatOk(field) THEN Float(field) ELSE DefaultScore

----------------------------------------------------------------------------
(* Inputs: what the user types and what the agents reply *)

Q1 == <<"Q", "1">>

Q2 == <<"Q", "2">>

\* replies of interviewer.generate_reply
Questions == {Q1, Q2}

\* the text area's content at submission
Answers == {<<>>, <<" ">>, <<"a", " ">>}

\* replies of coach.generate_reply
CoachTexts == {<<"F">>}

ReplyScore8 == <<"#", " ", "S", "C", "O", "R", "E", ":", " ", "8", "/", "1", "0", "\n",
                 "o", "k">>

ReplyNoMarker == <<"o", "k">>

\* replies of scorer.generate_reply
ScorerReplies == {ReplyScore8, ReplyNoMarker}

----------------------------------------------------------------------------
(* The script *)

Turn(role, content) == [role |-> role, content |-> content]

\* the turns one submission appends before the next question
AnswerTurns(answer, coach_feedback, score_feedback) ==
    <<Turn("Candidate", answer), Turn("Coach", coach_feedback),
      Turn("Scorer", score_feedback)>>

QuestionTurnDropped(question) == <<>>

QuestionTurnTwice(question) ==
    <<Turn("Interviewer", question), Turn("Interviewer", question)>>

\* the turn appended for a generated question
QuestionTurn(question) == <<Turn("Interviewer", question)>>

AddScoreDefault(total, score) == total + DefaultScore

\* st.session_state.total_score += score
AddScore(total, score) == total + score

NoReport == [offered |-> FALSE]

\* sum(scores)
RECURSIVE Sum(_)
Sum(scores) == IF scores = <<>> THEN 0 ELSE scores[1] + Sum(Tail(scores))

\* an average as the fraction num/den
Fraction(n, d) == [num |-> n, den |-> d]

\* the sidebar's "Average Score": sum(scores_list) / len(scores_list)
SidebarAverage(scores) == Fraction(Sum(scores), Len(scores))

\* the completion block's avg_score: total_score / len(scores_list), or 0
CompletionAverage(total, scores) ==
    IF scores # <<>> THEN Fraction(total, Len(scores)) ELSE Fraction(0, 1)

\* the main area of one run: the completion block is inside the branch taken
\* when the interview is active
CompletionBlock(active, waiting, count, num, total, scores, history) ==
    IF active /\ ~waiting /\ count >= num
    THEN [offered |-> TRUE,
          total_questions |-> count,
          scores |-> scores,
          average_score |-> CompletionAverage(total, scores),
          total_score |-> total,
          conversation |-> history]
    ELSE NoReport

\* what the run that ends the interaction renders from the new state
Render ==
    report' = CompletionBlock(interview_active', waiting_for_answer', question_count',
                              num_questions', total_score', scores_list',
                              conversation_history')

\* a run in which the answer form is not submitted
NoSubmission == submit_button' = FALSE /\ user_answer' = <<>>

Init ==
    /\ conversation_history = <<>>
    /\ interview_active = FALSE
    /\ question_count = 0
    /\ total_score = 0
    /\ scores_list = <<>>
    /\ agents_ready = FALSE
    /\ current_question = <<>>
    /\ waiting_for_answer = FALSE
    /\ num_questions = DefaultQuestions
    /\ submit_button = FALSE
    /\ user_answer = <<>>
    /\ notice = "none"
    /\ calls = <<>>
    /\ report = NoReport

\* "Start Interview" with no API key entered
StartNoKey ==
    /\ ~interview_active
    /\ notice' = "error_api_key"
    /\ calls' = <<>>
    /\ NoSubmission
    /\ UNCHANGED <<session, num_questions>>
    /\ Render

\* "Start Interview": create_agents raises
StartAgentsFail ==
    /\ ~interview_active
    /\ notice' = "error_init"
    /\ calls' = <<>>
    /\ NoSubmission
    /\ UNCHANGED <<session, num_questions>>
    /\ Render

\* "Start Interview": the first interviewer.generate_reply raises, after the
\* session fields were assigned; the except reports it and the run goes on
StartQuestionFail ==
    /\ ~interview_active
    /\ agents_ready' = TRUE
    /\ interview_active' = TRUE
    /\ question_count' = 0
    /\ conversation_history' = <<>>
    /\ scores_list' = <<>>
    /\ total_score' = 0
    /\ notice' = "error_init"
    /\ calls' = <<"Interviewer">>
    /\ NoSubmission
    /\ UNCHANGED <<current_question, waiting_for_answer, num_questions>>
    /\ Render

\* "Start Interview": the first question is generated; st.rerun()
StartOK(first_question) ==
    /\ ~interview_active
    /\ agents_ready' = TRUE
    /\ interview_active' = TRUE
    /\ scores_list' = <<>>
    /\ total_score' = 0
    /\ current_question' = first_question
    /\ conversation_history' = QuestionTurn(first_question)
    /\ waiting_for_answer' = TRUE
    /\ question_count' = 1
    /\ notice' = "none"
    /\ calls' = <<"Interviewer">>
    /\ NoSubmission
    /\ UNCHANGED num_questions
    /\ Render

EndInterviewKeepsWaiting ==
    /\ interview_active
    /\ interview_active' = FALSE
    /\ notice' = "none"
    /\ calls' = <<>>
    /\ NoSubmission
    /\ UNCHANGED <<conversation_history, question_count, total_score, scores_list,
                   agents_ready, current_question, waiting_for_answer, num_questions>>
    /\ Render

\* "End Interview"; st.rerun()
EndInterview ==
    /\ interview_active
    /\ interview_active' = FALSE
    /\ waiting_for_answer' = FALSE
    /\ notice' = "none"
    /\ calls' = <<>>
    /\ NoSubmission
    /\ UNCHANGED <<conversation_history, question_count, total_score, scores_list,
                   agents_ready, current_question, num_questions>>
    /\ Render

\* "Reset All": every session key is deleted; st.rerun() initialises them anew
ResetAll ==
    /\ conversation_history' = <<>>
    /\ interview_active' = FALSE
    /\ question_count' = 0
    /\ total_score' = 0
    /\ scores_list' = <<>>
    /\ agents_ready' = FALSE
    /\ current_question' = <<>>
    /\ waiting_for_answer' = FALSE
    /\ notice' = "none"
    /\ calls' = <<>>
    /\ NoSubmission
    /\ UNCHANGED num_questions
    /\ Render

\* the user changes "Number of Questions": a run with no button pressed
SetNumQuestions(n) ==
    /\ n # num_questions
    /\ num_questions' = n
    /\ notice' = "none"
    /\ calls' = <<>>
    /\ NoSubmission
    /\ UNCHANGED session
    /\ Render

\* the answer form is rendered
FormShown ==
    interview_active /\ waiting_for_answer /\ question_count <= num_questions

AnswerGivenUnstripped(answer) == answer # <<>>

\* user_answer.strip() is truthy
AnswerGiven(answer) == Strip(answer) # <<>>

MoreQuestionsInclusive(count, num) == count <= num

MoreQuestionsEarly(count, num) == count + 1 < num

\* question_count < num_questions: another question follows
MoreQuestions(count, num) == count < num

\* "Submit Answer" with nothing but whitespace: the warning branch
SubmitEmpty(answer) ==
    /\ FormShown
    /\ ~AnswerGiven(answer)
    /\ submit_button' = TRUE
    /\ user_answer' = answer
    /\ notice' = "warning_no_answer"
    /\ calls' = <<>>
    /\ UNCHANGED <<session, num_questions>>
    /\ Render

\* "Submit Answer": coach.generate_reply raises
SubmitCoachFail(answer) ==
    /\ FormShown
    /\ AnswerGiven(answer)
    /\ conversation_history' = Append(conversation_history, Turn("Candidate", answer))
    /\ submit_button' = TRUE
    /\ user_answer' = answer
    /\ notice' = "error_processing"
    /\ calls' = <<"Coach">>
    /\ UNCHANGED <<interview_active, question_count, total_score, scores_list,
                   agents_ready, current_question, waiting_for_answer, num_questions>>
    /\ Render

\* "Submit Answer": scorer.generate_reply raises
SubmitScorerFail(answer, coach_feedback) ==
    /\ FormShown
    /\ AnswerGiven(answer)
    /\ conversation_history' =
           conversation_history \o <<Turn("Candidate", answer),
                                     Turn("Coach", coach_feedback)>>
    /\ submit_button' = TRUE
    /\ user_answer' = answer
    /\ notice' = "error_processing"
    /\ calls' = <<"Coach", "Scorer">>
    /\ UNCHANGED <<interview_active, question_count, total_score, scores_list,
                   agents_ready, current_question, waiting_for_answer, num_questions>>
    /\ Render

\* "Submit Answer": the score is appended, then the interviewer.generate_reply
\* for the next question raises
SubmitQuestionFail(answer, coach_feedback, score_feedback) ==
    /\ FormShown
    /\ AnswerGiven(answer)
    /\ MoreQuestions(question_count, num_questions)
    /\ conversation_history' =
           conversation_history \o AnswerTurns(answer, coach_feedback, score_feedback)
    /\ scores_list' = Append(scores_list, ExtractScore(score_feedback))
    /\ total_score' = AddScore(total_score, ExtractScore(score_feedback))
    /\ submit_button' = TRUE
    /\ user_answer' = answer
    /\ notice' = "error_processing"
    /\ calls' = <<"Coach", "Scorer", "Interviewer">>
    /\ UNCHANGED <<interview_active, question_count, agents_ready, current_question,
                   waiting_for_answer, num_questions>>
    /\ Render

\* "Submit Answer": every call succeeds and another question follows; st.rerun()
SubmitNext(answer, coach_feedback, score_feedback, next_question) ==
    /\ FormShown
    /\ AnswerGiven(answer)
    /\ MoreQuestions(question_count, num_questions)
    /\ conversation_history' =
           conversation_history \o AnswerTurns(answer, coach_feedback, score_feedback)
                                \o QuestionTurn(next_question)
    /\ scores_list' = Append(scores_list, ExtractScore(score_feedback))
    /\ total_score' = AddScore(total_score, ExtractScore(score_feedback))
    /\ current_question' = next_question
    /\ question_count' = question_count + 1
    /\ notice' = "none"
    /\ calls' = <<"Coach", "Scorer", "Interviewer">>
    /\ NoSubmission
    /\ UNCHANGED <<interview_active, agents_ready, waiting_for_answer, num_questions>>
    /\ Render

\* "Submit Answer": every call succeeds and no question follows; st.rerun()
SubmitFinal(answer, coach_feedback, score_feedback) ==
    /\ FormShown
    /\ AnswerGiven(answer)
    /\ ~MoreQuestions(question_count, num_questions)
    /\ conversation_history' =
           conversation_history \o AnswerTurns(answer, coach_feedback, score_feedback)
    /\ scores_list' = Append(scores_list, ExtractScore(score_feedback))
    /\ total_score' = AddScore(total_score, ExtractScore(score_feedback))
    /\ waiting_for_answer' = FALSE
    /\ interview_active' = FALSE
    /\ notice' = "none"
    /\ calls' = <<"Coach", "Scorer">>
    /\ NoSubmission
    /\ UNCHANGED <<question_count, agents_ready, current_question, num_questions>>
    /\ Render

\* a further answer is submitted only while the history is within the bound
InBound == Len(conversation_history) <= MaxHistory

Start == \E q \in Questions : StartOK(q)

ChangeNumQuestions == \E n \in MinQuestions..MaxPick : SetNumQuestions(n)

AnswerEmpty == \E a \in Answers : SubmitEmpty(a)

CoachFails == InBound /\ \E a \in Answers : SubmitCoachFail(a)

ScorerFails == InBound /\ \E a \in Answers, c \in CoachTexts : SubmitScorerFail(a, c)

QuestionFails ==
    InBound /\ \E a \in Answers, c \in CoachTexts, r \in ScorerReplies :
                   SubmitQuestionFail(a, c, r)

AnswerNext ==
    InBound /\ \E a \in Answers, c \in CoachTexts, r \in ScorerReplies, q \in Questions :
                   SubmitNext(a, c, r, q)

AnswerFinal ==
    InBound /\ \E a \in Answers, c \in CoachTexts, r \in ScorerReplies :
                   SubmitFinal(a, c, r)

Next ==
    \/ StartNoKey
    \/ StartAgentsFail
    \/ StartQuestionFail
    \/ Start
    \/ EndInterview
    \/ ResetAll
    \/ ChangeNumQuestions
    \/ AnswerEmpty
    \/ CoachFails
    \/ ScorerFails
    \/ QuestionFails
    \/ AnswerNext
    \/ AnswerFinal

Spec == Init /\ [][Next]_vars

----------------------------------------------------------------------------
(* A fully driven session: the number of questions is chosen before the    *)
(* first start, every remote call succeeds and nothing but answers is      *)
(* submitted.                                                              *)

Configure == ~agents_ready /\ \E n \in MinQuestions..MaxQuestions : SetNumQuestions(n)

DrivenStart == StartOK(Q1)

DrivenNext == SubmitNext(<<"a", " ">>, <<"F">>, ReplyScore8, Q2)

DrivenFinal == SubmitFinal(<<"a", " ">>, <<"F">>, ReplyScore8)

NextDriven ==
    \/ Configure
    \/ DrivenStart
    \/ DrivenNext
    \/ DrivenFinal

SpecDriven == Init /\ [][NextDriven]_vars

----------------------------------------------------------------------------
(* Score extraction: a one-question interview whose Scorer reply ranges    *)
(* over texts built from a lead line, a prefix, a marker, a score field    *)
(* and a trailing line.                                                    *)

LeadLines == {<<>>, <<"o", "k", "\n">>, <<"s", "c", "o", "r", "e", ":", " ", "5", "/", "1", "0", "\n">>}

LinePrefixes == {<<>>, <<"#", " ">>, <<"1", "/", "2", " ">>, <<"a", ":", " ">>}

Markers == {ScoreMarker, <<"S", "c", "o", "r", "e", ":">>, <<"s", "c", "o", "r", "e", ":">>}

ScoreFields ==
    {<<" ", "7", "/", "1", "0">>, <<" ", "8", "/", "1", "0">>,
     <<" ", "1", "0", "/", "1", "0">>, <<" ", "1", "5", "/", "1", "0">>,
     <<" ", "-", "3", "/", "1", "0">>, <<"8", "/", "1", "0">>,
     <<" ", "x", "/", "1", "0">>, <<" ", "8">>, <<" ", "8", " ", "/", "1", "0">>}

TrailLines == {<<>>, <<"\n", "b", ":", " ", "o", "k">>}

UnmarkedReplies == {<<>>, ReplyNoMarker, <<"8", "/", "1", "0">>, <<"S", "C", "O", "R", "E", " ", "8">>}

ParseReplies ==
    UnmarkedReplies \cup
    {l \o p \o m \o f \o t :
        l \in LeadLines, p \in LinePrefixes, m \in Markers, f \in ScoreFields, t \in TrailLines}

ConfigureOne == ~agents_ready /\ SetNumQuestions(MinQuestions)

ParseStart == num_questions = MinQuestions /\ StartOK(Q1)

ParseFinal == \E r \in ParseReplies : SubmitFinal(<<"a", " ">>, <<"F">>, r)

NextParse ==
    \/ ConfigureOne
    \/ ParseStart
    \/ ParseFinal

SpecParse == Init /\ [][NextParse]_vars

----------------------------------------------------------------------------
(* Properties *)

\* the number of turns of a role in a history
NumTurns(history, role) == Cardinality({i \in DOMAIN history : history[i].role = role})

\* a text of nothing but whitespace
IsBlank(text) == \A i \in DOMAIN text : text[i] \in Whitespace

\* a step that appended a score
ScoreAppended == Len(scores_list') = Len(scores_list) + 1

\* a submission step all of whose remote calls succeeded
SubmitSucceeded == ScoreAppended /\ notice' = "none"

\* C1: a session started and driven by answers alone, with no failure, is
\* active while fewer than num_questions answers were submitted, and after
\* num_questions answers it is inactive with question_count = num_questions
\* and len(scores_list) = num_questions.
DrivenSessionEnds ==
    LET answers == NumTurns(conversation_history, "Candidate")
    IN agents_ready =>
           /\ answers <= num_questions
           /\ answers < num_questions => interview_active
           /\ answers = num_questions =>
                  /\ ~interview_active
                  /\ question_count = num_questions
                  /\ Len(scores_list) = num_questions

DrivenSessionEndsWitness ==
    /\ ~interview_active
    /\ NumTurns(conversation_history, "Candidate") = MaxQuestions
    /\ question_count = MaxQuestions
    /\ Len(scores_list) = MaxQuestions

\* C2: a submission whose Coach or Scorer call fails leaves question_count,
\* the length of conversation_history and the length of scores_list as they
\* were before the submission.
EvaluationFailureRollsBack ==
    [][(notice' = "error_processing" /\ calls' \in {<<"Coach">>, <<"Coach", "Scorer">>})
         => /\ question_count' = question_count
            /\ Len(conversation_history') = Len(conversation_history)
            /\ Len(scores_list') = Len(scores_list)]_vars

\* C3: submitting an empty or whitespace-only answer leaves every session
\* field unchanged and makes no agent call, at every such submission.
EmptyAnswerChangesNothing ==
    [][(submit_button' /\ IsBlank(user_answer'))
         => (UNCHANGED session /\ calls' = <<>>)]_vars

EmptyAnswerWitness ==
    /\ submit_button
    /\ user_answer = <<" ">>
    /\ notice = "warning_no_answer"
    /\ interview_active
    /\ Len(scores_list) = 1

\* C4: in every reachable state len(scores_list) <= question_count <= num_questions.
ScoresWithinTurns ==
    Len(scores_list) <= question_count /\ question_count <= num_questions

\* C5 as claimed: interview_active goes from true to false only when the
\* operator cancels or question_count = num_questions, and it becomes false
\* at the step in which question_count reaches num_questions.
ActiveEndsWhenCountReachesMax ==
    [][/\ (interview_active /\ ~interview_active' /\ ScoreAppended)
            => question_count' = num_questions'
       /\ (interview_active /\ question_count' # question_count
             /\ question_count' = num_questions')
            => ~interview_active']_vars

\* C5 as amended: interview_active goes from true to false only when the
\* operator cancels or an answer is submitted with question_count =
\* num_questions; every successful such submission makes it false; a step
\* that raises question_count leaves the session active.
ActiveEndsOnFinalAnswer ==
    [][/\ (interview_active /\ ~interview_active' /\ ScoreAppended)
            => (question_count = num_questions /\ question_count' = question_count)
       /\ (SubmitSucceeded /\ question_count = num_questions) => ~interview_active'
       /\ (interview_active /\ question_count' > question_count) => interview_active']_vars

ActiveEndsWitness ==
    /\ ~interview_active
    /\ question_count = 2
    /\ num_questions = 2
    /\ Len(scores_list) = 2
    /\ conversation_history[Len(conversation_history)].role = "Scorer"

\* C6: a successful submission appends exactly one Interviewer turn if the
\* session is active afterwards and none if it is inactive; no submission
\* appends more than one.
OneQuestionPerAnswer ==
    [][/\ SubmitSucceeded
            => NumTurns(conversation_history', "Interviewer")
                 = NumTurns(conversation_history, "Interviewer")
                     + (IF interview_active' THEN 1 ELSE 0)
       /\ submit_button'
            => NumTurns(conversation_history', "Interviewer")
                 <= NumTurns(conversation_history, "Interviewer") + 1]_vars

OneQuestionWitness ==
    /\ interview_active
    /\ question_count = 2
    /\ Len(scores_list) = 1
    /\ NumTurns(conversation_history, "Interviewer") = 2
    /\ notice = "none"

\* C7: the step that completes an interview (the last answer is scored and
\* the session becomes inactive) ends in a run that offers the completion
\* report.
ReportOfferedOnCompletion ==
    [][(interview_active /\ ~interview_active' /\ ScoreAppended) => report'.offered]_vars

\* C8: a start whose first-question call fails leaves the session inactive.
FailedStartLeavesInactive ==
    [][(notice' = "error_init") => ~interview_active']_vars

\* C9: in every reachable state total_score = sum(scores_list), and for a
\* non-empty scores_list the sidebar's and the completion block's average
\* are sum(scores_list) / len(scores_list).
TotalIsSumOfScores ==
    /\ total_score = Sum(scores_list)
    /\ scores_list # <<>> =>
           /\ CompletionAverage(total_score, scores_list)
                = Fraction(Sum(scores_list), Len(scores_list))
           /\ SidebarAverage(scores_list) = Fraction(Sum(scores_list), Len(scores_list))

TotalIsSumWitness ==
    /\ scores_list = <<8, 7>>
    /\ total_score = 15
    /\ agents_ready

\* the line is '<prefix>SCORE: n/10', the marker (in any case) at position i
\* and n a non-empty string of digits
HasScoreForm(line, i) ==
    /\ i >= 1
    /\ i + 10 <= Len(line)
    /\ Upper(SubSeq(line, i, i + 5)) = ScoreMarker
    /\ line[i + 6] = " "
    /\ SubSeq(line, Len(line) - 2, Len(line)) = <<"/", "1", "0">>
    /\ \A j \in (i + 7)..(Len(line) - 3) : line[j] \in Digits

FormNumber(line, i) == DecimalValue(SubSeq(line, i + 7, Len(line) - 3))

\* C10: when the first line of the Scorer reply that contains the marker has
\* the form '<prefix>SCORE: n/10', the score appended for the reply is n.
ScoreFormParsed ==
    (conversation_history # <<>>
       /\ conversation_history[Len(conversation_history)].role = "Scorer")
    => LET reply == conversation_history[Len(conversation_history)].content
           lines == ScoreLines(reply)
       IN lines # <<>> =>
              \A i \in 1..Len(lines[1]) :
                  HasScoreForm(lines[1], i)
                    => scores_list[Len(scores_list)] = FormNumber(lines[1], i)

\* the marker, in any case, is at position i of the line
MarkerAt(line, i) ==
    i + 5 <= Len(line) /\ Upper(SubSeq(line, i, i + 5)) = ScoreMarker

\* the text between the first marker of the line and the next '/'
ValueText(line) ==
    LET first == CHOOSE i \in 1..Len(line) :
                     MarkerAt(line, i) /\ \A j \in 1..(i - 1) : ~MarkerAt(line, j)
    IN Split(SubSeq(line, first + 6, Len(line)), "/")[1]

\* the history ends with the Scorer turn of a submission
EndsWithScorer ==
    /\ conversation_history # <<>>
    /\ conversation_history[Len(conversation_history)].role = "Scorer"

LastReply == conversation_history[Len(conversation_history)].content

\* C11: when the Scorer reply has no line with the marker, or the text after
\* the marker of its first marker line is not a number, the submission
\* appends exactly one score, the default, reports no error and goes on to
\* termination.
UnparsableScoreIsDefault ==
    EndsWithScorer =>
        LET lines == ScoreLines(LastReply)
        IN (lines = <<>> \/ ~FloatOk(Strip(ValueText(lines[1]))))
             => /\ Len(scores_list) = 1
                /\ scores_list[1] = DefaultScore
                /\ notice = "none"
                /\ ~interview_active

\* C12: every value stored in scores_list lies in [0, 10], whatever the
\* Scorer reply.
ScoresInRange ==
    \A i \in DOMAIN scores_list : 0 <= scores_list[i] /\ scores_list[i] <= 10

\* C13: changing "Number of Questions" while a session is active does not
\* change the bound the running session uses: whether the answer form is
\* shown and whether another question follows the next answer are as before
\* the change.
BoundFixedAtStart ==
    [][(interview_active /\ num_questions' # num_questions)
         => /\ FormShown' = FormShown
            /\ MoreQuestions(question_count', num_questions')
                 = MoreQuestions(question_count, num_questions)]_vars

\* the role that must precede a turn of the role in the round order
Predecessor(role) ==
    CASE role = "Candidate" -> "Interviewer"
      [] role = "Coach" -> "Candidate"
      [] role = "Scorer" -> "Coach"
      [] role = "Interviewer" -> "Scorer"

\* C14: in every reachable state the history is empty or starts with an
\* Interviewer turn, and every later turn is immediately preceded by the
\* turn of the role before it in the round order Interviewer, Candidate,
\* Coach, Scorer, Interviewer.
RoundOrder ==
    /\ conversation_history # <<>> => conversation_history[1].role = "Interviewer"
    /\ \A i \in 2..Len(conversation_history) :
           conversation_history[i - 1].role = Predecessor(conversation_history[i].role)

\* the session fields an answer submission writes
answered == <<conversation_history, scores_list, total_score, question_count>>

\* C15: while the session is inactive waiting_for_answer is false, and a
\* step taken from an inactive state submits no answer: it calls neither
\* Coach nor Scorer and, unless it starts a session or resets, it leaves
\* conversation_history, scores_list, total_score and question_count
\* unchanged.
InactiveAcceptsNoAnswer ==
    /\ [](~interview_active => ~waiting_for_answer)
    /\ [][~interview_active
            => /\ ~submit_button'
               /\ \A i \in DOMAIN calls' : calls'[i] = "Interviewer"
               /\ ~interview_active'
                    => \/ UNCHANGED answered
                       \/ answered' = <<(<<>>), (<<>>), 0, 0>>]_vars

InactiveWitness ==
    /\ ~interview_active
    /\ ~waiting_for_answer
    /\ question_count = 2
    /\ Len(scores_list) = 1
    /\ notice = "error_api_key"

\* the positions of the Interviewer turns of a history
InterviewerTurns(history) == {i \in DOMAIN history : history[i].role = "Interviewer"}

\* C16: in every reachable state question_count is the number of
\* Interviewer turns in conversation_history, and when there is one,
\* current_question is the content of the last of them.
CountMatchesQuestions ==
    LET asked == InterviewerTurns(conversation_history)
    IN /\ question_count = Cardinality(asked)
       /\ asked # {} =>
              current_question =
                  conversation_history[CHOOSE i \in asked : \A j \in asked : j <= i].content

CountMatchesWitness ==
    /\ question_count = 2
    /\ current_question = Q2
    /\ conversation_history[1].content = Q1
    /\ notice = "error_processing"
    /\ calls = <<"Coach", "Scorer">>

====
